---- MODULE Spec2Model ----
(***************************************************************************)
(* aichatconf: one invocation of process() reads an aichat configuration   *)
(* into a yaml.Node tree, locates the target client and its models         *)
(* sequence, lists the models of the inventory service, removes obsolete   *)
(* entries, adds missing ones, sorts the sequence, optionally rewrites the  *)
(* default model and writes the tree back.                                 *)
(*                                                                         *)
(* Go strings are tuples of one-character strings, so that substring       *)
(* search, splitting, trimming and byte-wise comparison are computed.      *)
(* A yaml.Node is a record [Kind, Value, Content, Comment]; a *yaml.Node   *)
(* into the document is the index path to it.                              *)
(***************************************************************************)
EXTENDS Integers, Sequences, FiniteSets, TLC

(* ------------------------------ bounds --------------------------------- *)
MaxExisting == 2
MaxInventory == 2
MaxParamLines == 2

MaxChildren == 4
MaxClients == 2

(* ------------------------------ strings -------------------------------- *)
\* The characters the model uses, in increasing byte order.
Chars == <<" ", ",", "-", ".", "0", "1", "2", "3", "4", "5", "6", "7", "8", "9",
           ":", "_", "a", "b", "c", "d", "e", "f", "g", "h", "i", "k", "l", "m",
           "n", "o", "p", "r", "s", "t", "u", "v", "x", "y", "z">>

Ord(c) == CHOOSE i \in 1..Len(Chars) : Chars[i] = c

\* Go's < on strings: byte-wise lexicographic.
RECURSIVE StrLess(_, _)
StrLess(a, b) ==
    IF b = <<>> THEN FALSE
    ELSE IF a = <<>> THEN TRUE
    ELSE IF Head(a) = Head(b) THEN StrLess(Tail(a), Tail(b))
    ELSE Ord(Head(a)) < Ord(Head(b))

\* strings.Contains(s, sub); the empty string is contained in every string.
Contains(s, sub) ==
    \E i \in 0..(Len(s) - Len(sub)) : SubSeq(s, i + 1, i + Len(sub)) = sub

\* strings.Index(s, c) for a single character, 0 when absent.
IndexOf(s, c) ==
    IF \E i \in 1..Len(s) : s[i] = c
    THEN CHOOSE i \in 1..Len(s) : s[i] = c /\ \A j \in 1..(i - 1) : s[j] # c
    ELSE 0

\* strings.Split(s, sep) for a single-character separator.
RECURSIVE Split(_, _)
Split(s, sep) ==
    LET p == IndexOf(s, sep)
    IN IF p = 0 THEN <<s>>
       ELSE <<SubSeq(s, 1, p - 1)>> \o Split(SubSeq(s, p + 1, Len(s)), sep)

\* strings.TrimSpace.
RECURSIVE TrimLeft(_)
TrimLeft(s) == IF s # <<>> /\ Head(s) = " " THEN TrimLeft(Tail(s)) ELSE s

RECURSIVE TrimRight(_)
TrimRight(s) ==
    IF s # <<>> /\ s[Len(s)] = " " THEN TrimRight(SubSeq(s, 1, Len(s) - 1)) ELSE s

TrimSpace(s) == TrimRight(TrimLeft(s))

\* strconv.Itoa.
Digits == <<"0", "1", "2", "3", "4", "5", "6", "7", "8", "9">>

RECURSIVE ItoaNat(_)
ItoaNat(n) ==
    IF n < 10 THEN <<Digits[n + 1]>> ELSE ItoaNat(n \div 10) \o <<Digits[(n % 10) + 1]>>

Itoa(n) == IF n < 0 THEN <<"-">> \o ItoaNat(0 - n) ELSE ItoaNat(n)

\* strconv.FormatFloat(f, 'f', 1, 64) of a float given in hundredths: one
\* decimal, rounded to nearest (the values used are no rounding ties).
FormatFloat(h) ==
    LET a == IF h < 0 THEN 0 - h ELSE h
        t == (a + 5) \div 10
    IN (IF h < 0 THEN <<"-">> ELSE <<>>)
       \o ItoaNat(t \div 10) \o <<".">> \o <<Digits[(t % 10) + 1]>>

(* ------------------------------ literals ------------------------------- *)
K_name == <<"n", "a", "m", "e">>
K_model == <<"m", "o", "d", "e", "l">>
K_models == <<"m", "o", "d", "e", "l", "s">>
K_clients == <<"c", "l", "i", "e", "n", "t", "s">>
K_type == <<"t", "y", "p", "e">>
K_true == <<"t", "r", "u", "e">>
K_embedding == <<"e", "m", "b", "e", "d", "d", "i", "n", "g">>
K_max_input_tokens ==
    <<"m", "a", "x", "_", "i", "n", "p", "u", "t", "_", "t", "o", "k", "e", "n", "s">>
K_temperature == <<"t", "e", "m", "p", "e", "r", "a", "t", "u", "r", "e">>
K_top_p == <<"t", "o", "p", "_", "p">>
K_supports_vision ==
    <<"s", "u", "p", "p", "o", "r", "t", "s", "_", "v", "i", "s", "i", "o", "n">>
K_supports_function_calling ==
    <<"s", "u", "p", "p", "o", "r", "t", "s", "_", "f", "u", "n", "c", "t", "i", "o", "n",
      "_", "c", "a", "l", "l", "i", "n", "g">>
K_supports_reasoning ==
    <<"s", "u", "p", "p", "o", "r", "t", "s", "_", "r", "e", "a", "s", "o", "n", "i", "n", "g">>
K_ollama == <<"o", "l", "l", "a", "m", "a">>
K_openai == <<"o", "p", "e", "n", "a", "i">>
K_stream == <<"s", "t", "r", "e", "a", "m">>
K_api_base == <<"a", "p", "i", "_", "b", "a", "s", "e">>
K_host == <<"h", "o", "s", "t">>
K_gpt == <<"g", "p", "t">>
EmptyStr == <<>>

(* ------------------------------ yaml.Node ------------------------------ *)
ScalarKind == "scalar"
MappingKind == "mapping"
SequenceKind == "sequence"

\* &yaml.Node{Kind: kind}
KindNode(kind) == [Kind |-> kind, Value |-> EmptyStr, Content |-> <<>>, Comment |-> ""]

\* &yaml.Node{Kind: yaml.ScalarNode, Value: v}
ScalarNode(v) == [Kind |-> ScalarKind, Value |-> v, Content |-> <<>>, Comment |-> ""]

MappingNode(c) == [Kind |-> MappingKind, Value |-> EmptyStr, Content |-> c, Comment |-> ""]

SequenceNode(c) == [Kind |-> SequenceKind, Value |-> EmptyStr, Content |-> c, Comment |-> ""]

Commented(n, text) == [n EXCEPT !.Comment = text]

\* getNodeValue walks every child, not only the keys: the first child that is
\* a scalar equal to key and is followed by a child of the wanted kind decides.
\* idx is the position of the returned child (0: a fresh node, not in the tree).
getNodeValueIndexes(node, key, valueKind) ==
    {i \in 1..Len(node.Content) :
        /\ node.Content[i].Kind = ScalarKind
        /\ node.Content[i].Value = key
        /\ i + 1 <= Len(node.Content)
        /\ node.Content[i + 1].Kind = valueKind}

getNodeValue(node, key, valueKind) ==
    LET hits == getNodeValueIndexes(node, key, valueKind)
    IN IF hits = {}
       THEN [node |-> KindNode(valueKind), ok |-> FALSE, idx |-> 0]
       ELSE LET i == CHOOSE h \in hits : \A g \in hits : h <= g
            IN [node |-> node.Content[i + 1], ok |-> TRUE, idx |-> i + 1]

(* ----------------------- enrichment of a new model --------------------- *)
\* strings.Fields: the maximal runs of non-space characters.
IsSpace(c) == c \in {" ", "\t"}

RECURSIVE Fields(_)
Fields(s) ==
    IF s = <<>> THEN <<>>
    ELSE IF IsSpace(Head(s)) THEN Fields(Tail(s))
    ELSE LET stops == {i \in 1..Len(s) : IsSpace(s[i])}
             e == IF stops = {} THEN Len(s) + 1
                  ELSE CHOOSE i \in stops : \A j \in stops : i <= j
         IN <<SubSeq(s, 1, e - 1)>> \o Fields(SubSeq(s, e, Len(s)))

DigitValue(c) == (CHOOSE i \in 1..Len(Digits) : Digits[i] = c) - 1

AllDigits(s) == \A i \in 1..Len(s) : \E d \in 1..Len(Digits) : Digits[d] = s[i]

RECURSIVE DigitsValue(_)
DigitsValue(s) ==
    IF s = <<>> THEN 0 ELSE DigitsValue(SubSeq(s, 1, Len(s) - 1)) * 10 + DigitValue(s[Len(s)])

\* strconv.ParseFloat on plain decimal text with at most two decimals; the
\* value is in hundredths. Anything else is a syntax error.
ParseFloat(s) ==
    LET signed == s # <<>> /\ Head(s) \in {"-", "+"}
        body == IF signed THEN Tail(s) ELSE s
        p == IndexOf(body, ".")
        ip == IF p = 0 THEN body ELSE SubSeq(body, 1, p - 1)
        fp == IF p = 0 THEN <<>> ELSE SubSeq(body, p + 1, Len(body))
        ok == /\ AllDigits(ip) /\ AllDigits(fp)
              /\ (ip # <<>> \/ fp # <<>>)
              /\ Len(fp) <= 2
        frac == IF Len(fp) = 1 THEN DigitsValue(fp) * 10 ELSE DigitsValue(fp)
        mag == DigitsValue(ip) * 100 + frac
    IN IF ok THEN [ok |-> TRUE, f |-> IF signed /\ Head(s) = "-" THEN 0 - mag ELSE mag]
       ELSE [ok |-> FALSE, f |-> 0]

K_context_length ==
    <<".", "c", "o", "n", "t", "e", "x", "t", "_", "l", "e", "n", "g", "t", "h">>

CapabilityVision == "vision"
CapabilityTools == "tools"
CapabilityThinking == "thinking"
CapabilityEmbedding == "embedding"
Capabilities == {CapabilityVision, CapabilityTools, CapabilityThinking, CapabilityEmbedding}

\* -1 and -1.0, the values getModelParameters starts from.
Unknown == [maxContextLength |-> 0 - 1, temperature |-> 0 - 100, topP |-> 0 - 100]

\* The first key of info.ModelInfo, in the order the range visits the map,
\* that contains ".context_length".
RECURSIVE FindContextLength(_)
FindContextLength(modelInfo) ==
    IF modelInfo = <<>> THEN Unknown.maxContextLength
    ELSE IF Contains(Head(modelInfo).key, K_context_length) THEN Head(modelInfo).value
    ELSE FindContextLength(Tail(modelInfo))

\* One pass of the loop over the lines of info.Parameters.
RECURSIVE ScanParameters(_, _, _)
ScanParameters(lines, temperature, topP) ==
    IF lines = <<>> THEN [temperature |-> temperature, topP |-> topP]
    ELSE LET paramKV == Fields(Head(lines))
             many == Len(paramKV) > 1
             f == IF many THEN ParseFloat(TrimSpace(paramKV[2])) ELSE [ok |-> FALSE, f |-> 0]
             t == IF many /\ Contains(paramKV[1], K_temperature) /\ f.ok
                  THEN f.f ELSE temperature
             q == IF many /\ Contains(paramKV[1], K_top_p) /\ f.ok
                  THEN f.f ELSE topP
         IN ScanParameters(Tail(lines), t, q)

\* resp is what ollamaClient.Show answers: [err, ModelInfo, Parameters, Capabilities].
getModelParameters(resp) ==
    IF resp.err
    THEN [maxCtxLen |-> Unknown.maxContextLength, temperature |-> Unknown.temperature,
          topP |-> Unknown.topP, capabilities |-> {}, err |-> TRUE]
    ELSE LET scanned == ScanParameters(Split(resp.Parameters, "\n"),
                                       Unknown.temperature, Unknown.topP)
         IN [maxCtxLen |-> FindContextLength(resp.ModelInfo),
             temperature |-> scanned.temperature,
             topP |-> scanned.topP,
             capabilities |-> resp.Capabilities,
             err |-> FALSE]

Field(cond, key, value) == IF cond THEN <<ScalarNode(key), ScalarNode(value)>> ELSE <<>>

\* Variant: temperature and top_p are written unless they are zero.
NewModelNode_NonZero(model, p) ==
    MappingNode(
        <<ScalarNode(K_name), ScalarNode(model)>>
        \o Field(p.maxCtxLen > 0, K_max_input_tokens, Itoa(p.maxCtxLen))
        \o Field(p.temperature # 0, K_temperature, FormatFloat(p.temperature))
        \o Field(p.topP # 0, K_top_p, FormatFloat(p.topP))
        \o Field(CapabilityVision \in p.capabilities, K_supports_vision, K_true)
        \o Field(CapabilityTools \in p.capabilities, K_supports_function_calling, K_true)
        \o Field(CapabilityThinking \in p.capabilities, K_supports_reasoning, K_true)
        \o Field(CapabilityEmbedding \in p.capabilities, K_type, K_embedding))

\* The mapping node built for a model that is not configured yet; the error of
\* getModelParameters is wrapped and dropped, so p is used as returned.
NewModelNode(model, p) ==
    MappingNode(
        <<ScalarNode(K_name), ScalarNode(model)>>
        \o Field(p.maxCtxLen > 0, K_max_input_tokens, Itoa(p.maxCtxLen))
        \o Field(p.temperature > 0, K_temperature, FormatFloat(p.temperature))
        \o Field(p.topP > 0, K_top_p, FormatFloat(p.topP))
        \o Field(CapabilityVision \in p.capabilities, K_supports_vision, K_true)
        \o Field(CapabilityTools \in p.capabilities, K_supports_function_calling, K_true)
        \o Field(CapabilityThinking \in p.capabilities, K_supports_reasoning, K_true)
        \o Field(CapabilityEmbedding \in p.capabilities, K_type, K_embedding))

(* ------------------------------- inputs -------------------------------- *)
SeqsUpTo(S, n) == UNION {[1..k -> S] : k \in 0..n}

\* Model names; "a" and "b" are substrings of "ab", and a < ab < b byte-wise.
N_a == <<"a">>
N_ab == <<"a", "b">>
N_b == <<"b">>
Names == {N_a, N_ab, N_b}

\* Model entries a configuration may already hold.
E_a == Commented(MappingNode(<<ScalarNode(K_name), ScalarNode(N_a),
                               ScalarNode(K_temperature), ScalarNode(<<"0", ".", "7">>)>>),
                 "# tuned by hand")
E_ab == MappingNode(<<ScalarNode(K_name), ScalarNode(N_ab),
                      ScalarNode(K_max_input_tokens), ScalarNode(<<"8", "1", "9", "2">>)>>)
E_anon == MappingNode(<<ScalarNode(K_temperature), ScalarNode(<<"0", ".", "7">>)>>)
EntryPool == {E_a, E_ab, E_anon}

\* The value of -e.
X_b == <<"b">>
X_a_b == <<"a", ",", " ", "b">>
X_b_ == <<"b", ",">>
ExcludeOptions == {EmptyStr, X_b, X_a_b, X_b_}

\* The top-level model scalar.
D_ollama_b == K_ollama \o <<":">> \o N_b
D_openai_gpt == K_openai \o <<":">> \o K_gpt
ModelParts == {<<>>,
               <<ScalarNode(K_model), ScalarNode(D_ollama_b)>>,
               <<ScalarNode(K_model), ScalarNode(D_openai_gpt)>>,
               <<ScalarNode(K_model), ScalarNode(N_b)>>}

OpenAIClient ==
    MappingNode(<<ScalarNode(K_type), ScalarNode(K_openai),
                  ScalarNode(K_name), ScalarNode(K_openai),
                  ScalarNode(K_models),
                  SequenceNode(<<MappingNode(<<ScalarNode(K_name), ScalarNode(K_gpt)>>)>>)>>)

\* An ollama client whose models key is absent, a scalar, or a sequence.
OllamaClient(modelsPart) ==
    MappingNode(<<ScalarNode(K_name), ScalarNode(K_ollama),
                  Commented(ScalarNode(K_api_base), "# local server"), ScalarNode(K_host)>>
                \o modelsPart)

NoModels == <<>>
ScalarModels == <<ScalarNode(K_models), ScalarNode(K_host)>>
Models(existing) == <<ScalarNode(K_models), SequenceNode(existing)>>

AnonClient == MappingNode(<<ScalarNode(K_type), ScalarNode(K_openai)>>)

Clients(cs) == <<ScalarNode(K_clients), SequenceNode(cs)>>

Root(modelPart, clientsPart) ==
    MappingNode(modelPart \o <<ScalarNode(K_stream), ScalarNode(K_true)>> \o clientsPart)

ExistingB == <<E_ab, E_a>>

ClientsParts ==
    {<<>>,
     <<ScalarNode(K_clients), ScalarNode(K_host)>>,
     Clients(<<>>),
     Clients(<<OpenAIClient>>),
     Clients(<<OpenAIClient, OllamaClient(NoModels)>>),
     Clients(<<OpenAIClient, OllamaClient(ScalarModels)>>),
     Clients(<<OpenAIClient, OllamaClient(Models(ExistingB))>>),
     Clients(<<OllamaClient(Models(ExistingB)), OllamaClient(NoModels)>>),
     Clients(<<OllamaClient(Models(<<E_a>>)), OllamaClient(Models(ExistingB))>>),
     Clients(<<AnonClient, ScalarNode(K_host), OllamaClient(Models(ExistingB))>>)}

\* What ollamaClient.Show answers in a run of process().
ShowError == [err |-> TRUE, ModelInfo |-> <<>>, Parameters |-> EmptyStr, Capabilities |-> {}]
ShowOK ==
    [err |-> FALSE,
     ModelInfo |-> <<[key |-> <<"l">> \o K_context_length, value |-> 8192]>>,
     Parameters |-> K_temperature \o <<" ", "0", ".", "7">>,
     Capabilities |-> {CapabilityVision}]
ShowOutcomes == {ShowError, ShowOK}

(* -------------------------------- state -------------------------------- *)
VARIABLES
    cfgBody,            \* the configuration file: [kind, root]
    argClient,          \* the value of -n on the command line
    optClientName, optExclude, optDefModel, optOutFile,
    inventory,          \* the model names the inventory service lists
    showTable,          \* the answers of Show so far: a set of [name, resp]
    pc, err, rerun,
    cfgDocNode,         \* cfgDocNode.Content[0]
    cfgDefModelClient, cfgDefModelName,
    cfgDefModelNode,    \* index in the root of the model scalar, 0: nil
    cfgClients,         \* index in the root of the clients sequence, 0: a fresh node
    cfgOllamaClient,    \* index in clients of the target client, 0: nil
    cfgOllamaModels,    \* [idx: index in the client of its models, 0: node is a fresh one]
    ollamaModels,
    listCalls, showCalls,
    output,             \* what was written: [written, dest, text]
    prevOutput, prevShowCalls,
    call, ret           \* argument and result of a function applied on its own

vars == <<cfgBody, argClient, optClientName, optExclude, optDefModel, optOutFile,
          inventory, showTable, pc, err, rerun, cfgDocNode, cfgDefModelClient,
          cfgDefModelName, cfgDefModelNode, cfgClients, cfgOllamaClient,
          cfgOllamaModels, ollamaModels, listCalls, showCalls, output, prevOutput,
          prevShowCalls, call, ret>>

NoOutput == [written |-> FALSE, dest |-> EmptyStr, text |-> <<>>]
NoNode == KindNode("zero")
Idle == [idle |-> TRUE]

\* The state of process() before its first statement.
Fresh ==
    /\ err = ""
    /\ cfgDocNode = NoNode
    /\ cfgDefModelClient = EmptyStr
    /\ cfgDefModelName = EmptyStr
    /\ cfgDefModelNode = 0
    /\ cfgClients = 0
    /\ cfgOllamaClient = 0
    /\ cfgOllamaModels = [idx |-> 0, node |-> NoNode]
    /\ ollamaModels = <<>>
    /\ listCalls = 0
    /\ showCalls = <<>>
    /\ output = NoOutput

InitCommon ==
    /\ optClientName = argClient
    /\ showTable = {}
    /\ rerun = FALSE
    /\ prevOutput = NoOutput
    /\ prevShowCalls = <<>>
    /\ call = Idle
    /\ ret = Idle
    /\ pc = "read"
    /\ Fresh

\* Runs that vary the configured models, the exclusion list and the inventory.
InitReconcile ==
    /\ \E existing \in SeqsUpTo(EntryPool, MaxExisting) :
          cfgBody = [kind |-> "doc",
                     root |-> Root(<<ScalarNode(K_model), ScalarNode(D_ollama_b)>>,
                                   Clients(<<OpenAIClient, OllamaClient(Models(existing))>>))]
    /\ argClient = K_ollama
    /\ optExclude \in ExcludeOptions
    /\ optDefModel = EmptyStr
    /\ optOutFile = EmptyStr
    /\ inventory \in SeqsUpTo(Names, MaxInventory)

\* Runs that vary the shape of the document and the command line.
InitLocate ==
    /\ \/ \E m \in ModelParts, c \in ClientsParts :
             cfgBody = [kind |-> "doc", root |-> Root(m, c)]
       \/ cfgBody \in {[kind |-> k, root |-> NoNode] : k \in {"unreadable", "invalid", "empty"}}
    /\ argClient \in {EmptyStr, K_ollama}
    /\ optExclude = EmptyStr
    /\ optDefModel \in {EmptyStr, N_b}
    /\ optOutFile \in {EmptyStr, K_host}
    /\ inventory \in {<<N_b, N_a>>, <<N_b, N_ab>>, <<N_a>>}

Init == (InitReconcile \/ InitLocate) /\ InitCommon

(* ------------------------------ process() ------------------------------ *)
Fail(reason) ==
    /\ pc' = "failed"
    /\ err' = reason

\* yaml.Marshal of a node: the emitted form of the node, its comment and its
\* children in order; yaml.Unmarshal reads it back into a node.
RECURSIVE Marshal(_)
Marshal(n) ==
    <<n.Kind, n.Value, n.Comment, [i \in 1..Len(n.Content) |-> Marshal(n.Content[i])]>>

RECURSIVE Unmarshal(_)
Unmarshal(t) ==
    [Kind |-> t[1], Value |-> t[2], Comment |-> t[3],
     Content |-> [i \in 1..Len(t[4]) |-> Unmarshal(t[4][i])]]

\* Reading and parsing the configuration file.
ReadConfig ==
    /\ pc = "read"
    /\ CASE cfgBody.kind = "unreadable" -> Fail("read") /\ UNCHANGED cfgDocNode
         [] cfgBody.kind = "invalid" -> Fail("unmarshal") /\ UNCHANGED cfgDocNode
         [] cfgBody.kind = "empty" -> Fail("empty config file") /\ UNCHANGED cfgDocNode
         [] OTHER -> /\ cfgDocNode' = cfgBody.root
                     /\ pc' = "locate"
                     /\ UNCHANGED err
    /\ UNCHANGED <<cfgBody, argClient, optClientName, optExclude, optDefModel, optOutFile,
                   inventory, showTable, rerun, cfgDefModelClient, cfgDefModelName,
                   cfgDefModelNode, cfgClients, cfgOllamaClient, cfgOllamaModels,
                   ollamaModels, listCalls, showCalls, output, prevOutput, prevShowCalls,
                   call, ret>>

\* regexp ^([^:]+):(.+)$ on the model scalar, both groups trimmed.
MatchDefModel(v) ==
    LET p == IndexOf(v, ":")
    IN IF p > 1 /\ p < Len(v)
       THEN [ok |-> TRUE, client |-> TrimSpace(SubSeq(v, 1, p - 1)),
             name |-> TrimSpace(SubSeq(v, p + 1, Len(v)))]
       ELSE [ok |-> FALSE, client |-> EmptyStr, name |-> EmptyStr]

\* The default client and model named by the top-level model scalar.
FindDefaultModel(root) ==
    LET got == getNodeValue(root, K_model, ScalarKind)
        m == IF got.ok THEN MatchDefModel(got.node.Value) ELSE MatchDefModel(EmptyStr)
    IN [node |-> IF m.ok THEN got.idx ELSE 0, client |-> m.client, name |-> m.name]

\* The client name the scan looks for when -n gave the name given.
TargetClientName(given, defModelClient) ==
    IF given = EmptyStr THEN defModelClient ELSE given

\* The children <<i, j>> of the clients at which the scan reads cn.Content[j+1].
ScanReads(clients) ==
    {ij \in UNION {{<<i, j>> : j \in 1..Len(clients[i].Content)} : i \in 1..Len(clients)} :
        /\ clients[ij[1]].Content[ij[2]].Kind = ScalarKind
        /\ clients[ij[1]].Content[ij[2]].Value = K_name}

\* The scan indexes past the end when "name" is the last child of a client.
ScanPanics(clients) ==
    \E ij \in ScanReads(clients) : ij[2] + 1 > Len(clients[ij[1]].Content)

\* Variant: every client with a scalar after "name" is selected.
ScanMatches_AnyName(clients, target) ==
    {ij[1] : ij \in {r \in ScanReads(clients) :
        /\ r[2] + 1 <= Len(clients[r[1]].Content)
        /\ clients[r[1]].Content[r[2] + 1].Kind = ScalarKind}}

\* The clients the scan selects; the loops do not break, so the last one stays.
ScanMatches(clients, target) ==
    {ij[1] : ij \in {r \in ScanReads(clients) :
        /\ r[2] + 1 <= Len(clients[r[1]].Content)
        /\ clients[r[1]].Content[r[2] + 1].Kind = ScalarKind
        /\ clients[r[1]].Content[r[2] + 1].Value = target}}

LastOf(S) == CHOOSE x \in S : \A y \in S : y <= x

\* Finding the default model, the clients, the target client and its models.
LocateClient ==
    /\ pc = "locate"
    /\ LET def == FindDefaultModel(cfgDocNode)
           cl == getNodeValue(cfgDocNode, K_clients, SequenceKind)
           target == TargetClientName(optClientName, def.client)
           hits == ScanMatches(cl.node.Content, target)
       IN /\ cfgDefModelNode' = def.node
          /\ cfgDefModelClient' = def.client
          /\ cfgDefModelName' = def.name
          /\ cfgClients' = cl.idx
          /\ optClientName' = target
          /\ IF ScanPanics(cl.node.Content)
             THEN /\ pc' = "panic"
                  /\ err' = "index out of range"
                  /\ UNCHANGED <<cfgOllamaClient, cfgOllamaModels>>
             ELSE IF hits = {}
             THEN /\ Fail("client not found")
                  /\ UNCHANGED <<cfgOllamaClient, cfgOllamaModels>>
             ELSE LET got == getNodeValue(cl.node.Content[LastOf(hits)], K_models,
                                          SequenceKind)
                  IN /\ cfgOllamaClient' = LastOf(hits)
                     /\ cfgOllamaModels' = [idx |-> got.idx,
                                            node |-> IF got.ok THEN NoNode ELSE got.node]
                     /\ pc' = "list"
                     /\ UNCHANGED err
    /\ UNCHANGED <<cfgBody, argClient, optExclude, optDefModel, optOutFile, inventory,
                   showTable, rerun, cfgDocNode, ollamaModels, listCalls, showCalls,
                   output, prevOutput, prevShowCalls, call, ret>>

\* lo.ForEach hands each item to the callback by value: the slice keeps its items.
ForEachTrimSpace(items) == items

\* Variant: a model is excluded only when its name equals an item.
ExcludeModels_Exact(models, exclude) ==
    IF exclude = EmptyStr THEN models
    ELSE LET excludeModels == ForEachTrimSpace(Split(exclude, ","))
         IN SelectSeq(models,
                LAMBDA model : \A k \in 1..Len(excludeModels) : model # excludeModels[k])

\* The names of the inventory that contain no item of the exclusion list.
ExcludeModels(models, exclude) ==
    IF exclude = EmptyStr THEN models
    ELSE LET excludeModels == ForEachTrimSpace(Split(exclude, ","))
         IN SelectSeq(models,
                LAMBDA model : \A k \in 1..Len(excludeModels) :
                                   ~Contains(model, excludeModels[k]))

\* Variant: the destination is written before the models are listed.
ListModels_WriteFirst ==
    /\ pc = "list"
    /\ listCalls' = listCalls + 1
    /\ output' = [written |-> TRUE, dest |-> optOutFile, text |-> Marshal(cfgDocNode)]
    /\ \/ /\ Fail("list")
          /\ UNCHANGED ollamaModels
       \/ /\ ollamaModels' = ExcludeModels(inventory, optExclude)
          /\ pc' = "reconcile"
          /\ UNCHANGED err
    /\ UNCHANGED <<cfgBody, argClient, optClientName, optExclude, optDefModel, optOutFile,
                   inventory, showTable, rerun, cfgDocNode, cfgDefModelClient,
                   cfgDefModelName, cfgDefModelNode, cfgClients, cfgOllamaClient,
                   cfgOllamaModels, showCalls, prevOutput, prevShowCalls, call, ret>>

\* Creating the client, listing the models, applying the exclusion list.
ListModels ==
    /\ pc = "list"
    /\ listCalls' = listCalls + 1
    /\ \/ /\ Fail("list")
          /\ UNCHANGED ollamaModels
       \/ /\ ollamaModels' = ExcludeModels(inventory, optExclude)
          /\ pc' = "reconcile"
          /\ UNCHANGED err
    /\ UNCHANGED <<cfgBody, argClient, optClientName, optExclude, optDefModel, optOutFile,
                   inventory, showTable, rerun, cfgDocNode, cfgDefModelClient,
                   cfgDefModelName, cfgDefModelNode, cfgClients, cfgOllamaClient,
                   cfgOllamaModels, showCalls, output, prevOutput, prevShowCalls,
                   call, ret>>

\* The content of the node cfgOllamaModels points to.
ModelsContent(root, clientsIdx, clientIdx, models) ==
    IF models.idx = 0 THEN models.node.Content
    ELSE root.Content[clientsIdx].Content[clientIdx].Content[models.idx].Content

\* The name getNodeValue reads from a model entry.
ModelName(cfgModel) == getNodeValue(cfgModel, K_name, ScalarKind)

\* Variant: every entry with a name is kept.
RemoveObsoleteModels_KeepNamed(content, models) ==
    SelectSeq(content, LAMBDA cfgModel : ModelName(cfgModel).ok)

\* Variant: the entries kept are built anew from their names.
RemoveObsoleteModels_Rebuild(content, models) ==
    LET kept == SelectSeq(content,
                    LAMBDA cfgModel :
                        /\ ModelName(cfgModel).ok
                        /\ \E k \in 1..Len(models) : models[k] = ModelName(cfgModel).node.Value)
    IN [k \in 1..Len(kept) |->
           MappingNode(<<ScalarNode(K_name), ScalarNode(ModelName(kept[k]).node.Value)>>)]

\* Removing the obsolete models: the entries with a name the inventory lists.
RemoveObsoleteModels(content, models) ==
    SelectSeq(content,
        LAMBDA cfgModel :
            /\ ModelName(cfgModel).ok
            /\ \E k \in 1..Len(models) : models[k] = ModelName(cfgModel).node.Value)

\* Variant: a model counts as configured when an entry's name contains its name.
ModelFound_Contains(content, model) ==
    \E k \in 1..Len(content) :
        ModelName(content[k]).ok /\ Contains(ModelName(content[k]).node.Value, model)

ModelFound(content, model) ==
    \E k \in 1..Len(content) :
        ModelName(content[k]).ok /\ ModelName(content[k]).node.Value = model

\* What Show answers for a model, given the answers of this run.
ShowResponse(table, model) == (CHOOSE e \in table : e.name = model).resp

\* Variant: a model for which Show failed is skipped.
RECURSIVE AddNewModels_SkipFailed(_, _, _)
AddNewModels_SkipFailed(content, models, table) ==
    IF models = <<>> THEN [content |-> content, calls |-> <<>>]
    ELSE IF ModelFound(content, Head(models))
    THEN AddNewModels_SkipFailed(content, Tail(models), table)
    ELSE LET resp == ShowResponse(table, Head(models))
             newNode == NewModelNode(Head(models), getModelParameters(resp))
             rest == AddNewModels_SkipFailed(
                         IF resp.err THEN content ELSE Append(content, newNode),
                         Tail(models), table)
         IN [content |-> rest.content, calls |-> <<Head(models)>> \o rest.calls]

\* Variant: the models are looked up in the sequence as it was before any was added.
AddNewModels_NoRecheck(content, models, table) ==
    LET new == SelectSeq(models, LAMBDA model : ~ModelFound(content, model))
    IN [content |-> content \o
                    [k \in 1..Len(new) |->
                        NewModelNode(new[k], getModelParameters(ShowResponse(table, new[k])))],
        calls |-> new]

\* Adding the new models, in the order of the inventory; calls lists the models
\* getModelParameters was called for.
RECURSIVE AddNewModels(_, _, _)
AddNewModels(content, models, table) ==
    IF models = <<>> THEN [content |-> content, calls |-> <<>>]
    ELSE IF ModelFound(content, Head(models))
    THEN AddNewModels(content, Tail(models), table)
    ELSE LET newNode == NewModelNode(Head(models),
                                     getModelParameters(ShowResponse(table, Head(models))))
             rest == AddNewModels(Append(content, newNode), Tail(models), table)
         IN [content |-> rest.content, calls |-> <<Head(models)>> \o rest.calls]

\* The less function handed to sort.Slice.
LessByName(a, b) == StrLess(ModelName(a).node.Value, ModelName(b).node.Value)

\* sort.Slice on fewer than 12 elements is an insertion sort: each element is
\* moved down while it is less than the one before it.
RECURSIVE InsertDown(_, _)
InsertDown(sorted, x) ==
    IF sorted # <<>> /\ LessByName(x, sorted[Len(sorted)])
    THEN Append(InsertDown(SubSeq(sorted, 1, Len(sorted) - 1), x), sorted[Len(sorted)])
    ELSE Append(sorted, x)

RECURSIVE InsertionSort(_, _)
InsertionSort(done, todo) ==
    IF todo = <<>> THEN done ELSE InsertionSort(InsertDown(done, Head(todo)), Tail(todo))

\* Variant: the sequence is left in the order the models were added.
SortModels_None(content) == content

SortModels(content) == InsertionSort(<<>>, content)

\* Variant: the sequence is stored in every client that carries the name of the
\* client selected and has a models sequence.
StoreModels_EveryMatch(root, clientsIdx, clientIdx, modelsIdx, content) ==
    LET clients == root.Content[clientsIdx].Content
        name == getNodeValue(clients[clientIdx], K_name, ScalarKind).node.Value
        Same(i) == /\ getNodeValue(clients[i], K_name, ScalarKind).ok
                   /\ getNodeValue(clients[i], K_name, ScalarKind).node.Value = name
                   /\ getNodeValue(clients[i], K_models, SequenceKind).ok
        Stored(i) ==
            [clients[i] EXCEPT
                !.Content[getNodeValue(clients[i], K_models, SequenceKind).idx].Content
                    = content]
    IN [root EXCEPT !.Content[clientsIdx].Content =
           [i \in 1..Len(clients) |-> IF Same(i) THEN Stored(i) ELSE clients[i]]]

\* cfgOllamaModels.Content = ... for a cfgOllamaModels that is in the document:
\* the one node the pointer names gets the sequence.
StoreModels(root, clientsIdx, clientIdx, modelsIdx, content) ==
    [root EXCEPT !.Content[clientsIdx].Content[clientIdx].Content[modelsIdx].Content = content]

\* The models Show is asked about while adding.
ModelsToShow(content, models) ==
    {models[k] : k \in {i \in 1..Len(models) : ~ModelFound(content, models[i])}}

\* Removing the obsolete models, adding the new ones, sorting by name.
Reconcile ==
    /\ pc = "reconcile"
    /\ LET content == ModelsContent(cfgDocNode, cfgClients, cfgOllamaClient, cfgOllamaModels)
           kept == RemoveObsoleteModels(content, ollamaModels)
           asked == ModelsToShow(kept, ollamaModels)
           known == {e \in showTable : e.name \in asked}
           unknown == asked \ {e.name : e \in known}
       IN \E answers \in [unknown -> ShowOutcomes] :
            LET table == showTable \cup {[name |-> n, resp |-> answers[n]] : n \in unknown}
                added == AddNewModels(kept, ollamaModels, table)
                sorted == SortModels(added.content)
            IN /\ showTable' = table
               /\ showCalls' = showCalls \o added.calls
               /\ IF cfgOllamaModels.idx = 0
                  THEN /\ cfgOllamaModels' =
                             [cfgOllamaModels EXCEPT !.node.Content = sorted]
                       /\ UNCHANGED cfgDocNode
                  ELSE /\ cfgDocNode' = StoreModels(cfgDocNode, cfgClients, cfgOllamaClient,
                                                   cfgOllamaModels.idx, sorted)
                       /\ UNCHANGED cfgOllamaModels
    /\ pc' = "default"
    /\ UNCHANGED <<cfgBody, argClient, optClientName, optExclude, optDefModel, optOutFile,
                   inventory, err, rerun, cfgDefModelClient, cfgDefModelName,
                   cfgDefModelNode, cfgClients, cfgOllamaClient, ollamaModels, listCalls,
                   output, prevOutput, prevShowCalls, call, ret>>

\* Variant: the last model whose name contains optDefModel is taken.
DesiredModel_Last(content, defModel) ==
    LET hits == {k \in 1..Len(content) :
                    /\ ModelName(content[k]).ok
                    /\ Contains(ModelName(content[k]).node.Value, defModel)}
    IN IF hits = {} THEN EmptyStr
       ELSE ModelName(content[CHOOSE h \in hits : \A g \in hits : g <= h]).node.Value

\* The first model, in the order of the sequence, whose name contains optDefModel.
DesiredModel(content, defModel) ==
    LET hits == {k \in 1..Len(content) :
                    /\ ModelName(content[k]).ok
                    /\ Contains(ModelName(content[k]).node.Value, defModel)}
    IN IF hits = {} THEN EmptyStr
       ELSE ModelName(content[CHOOSE h \in hits : \A g \in hits : h <= g]).node.Value

\* Rewriting the default model when -m names one of the models.
SetDefaultModel ==
    /\ pc = "default"
    /\ LET content == ModelsContent(cfgDocNode, cfgClients, cfgOllamaClient, cfgOllamaModels)
           desiredModel == IF optDefModel = EmptyStr THEN EmptyStr
                           ELSE DesiredModel(content, optDefModel)
           value == optClientName \o <<":">> \o desiredModel
       IN IF desiredModel = EmptyStr
          THEN /\ pc' = "output"
               /\ UNCHANGED <<err, cfgDefModelName, cfgDocNode>>
          ELSE IF cfgDefModelNode = 0
          THEN /\ pc' = "panic"
               /\ err' = "nil pointer dereference"
               /\ cfgDefModelName' = value
               /\ UNCHANGED cfgDocNode
          ELSE /\ pc' = "output"
               /\ cfgDefModelName' = value
               /\ cfgDocNode' = [cfgDocNode EXCEPT !.Content[cfgDefModelNode].Value = value]
               /\ UNCHANGED err
    /\ UNCHANGED <<cfgBody, argClient, optClientName, optExclude, optDefModel, optOutFile,
                   inventory, showTable, rerun, cfgDefModelClient, cfgDefModelNode,
                   cfgClients, cfgOllamaClient, cfgOllamaModels, ollamaModels, listCalls,
                   showCalls, output, prevOutput, prevShowCalls, call, ret>>

\* Serialising the root and writing it to the file or to standard output.
WriteOutput ==
    /\ pc = "output"
    /\ \/ /\ output' = [written |-> TRUE, dest |-> optOutFile, text |-> Marshal(cfgDocNode)]
          /\ pc' = "done"
          /\ UNCHANGED err
       \/ /\ optOutFile # EmptyStr
          /\ Fail("write")
          /\ UNCHANGED output
    /\ UNCHANGED <<cfgBody, argClient, optClientName, optExclude, optDefModel, optOutFile,
                   inventory, showTable, rerun, cfgDocNode, cfgDefModelClient,
                   cfgDefModelName, cfgDefModelNode, cfgClients, cfgOllamaClient,
                   cfgOllamaModels, ollamaModels, listCalls, showCalls, prevOutput,
                   prevShowCalls, call, ret>>

\* The tool is run again, with the same command line and the same inventory,
\* on the configuration it wrote.
RunAgain ==
    /\ pc = "done"
    /\ ~rerun
    /\ rerun' = TRUE
    /\ cfgBody' = [kind |-> "doc", root |-> Unmarshal(output.text)]
    /\ prevOutput' = output
    /\ prevShowCalls' = showCalls
    /\ optClientName' = argClient
    /\ pc' = "read"
    /\ err' = ""
    /\ cfgDocNode' = NoNode
    /\ cfgDefModelClient' = EmptyStr
    /\ cfgDefModelName' = EmptyStr
    /\ cfgDefModelNode' = 0
    /\ cfgClients' = 0
    /\ cfgOllamaClient' = 0
    /\ cfgOllamaModels' = [idx |-> 0, node |-> NoNode]
    /\ ollamaModels' = <<>>
    /\ listCalls' = 0
    /\ showCalls' = <<>>
    /\ output' = NoOutput
    /\ UNCHANGED <<argClient, optExclude, optDefModel, optOutFile, inventory, showTable,
                   call, ret>>

Next ==
    \/ ReadConfig
    \/ LocateClient
    \/ ListModels
    \/ Reconcile
    \/ SetDefaultModel
    \/ WriteOutput
    \/ RunAgain

Spec == Init /\ [][Next]_vars

(* ------------- getModelParameters and the new node on their own -------- *)
\* Keys of info.ModelInfo, in the order the range visits them.
MI_arch == [key |-> <<"g", ".", "a", "r", "c", "h">>, value |-> 7]
MI_ctx(v) == [key |-> <<"l">> \o K_context_length, value |-> v]
ModelInfos == {<<>>, <<MI_ctx(8192)>>, <<MI_ctx(0)>>, <<MI_ctx(0 - 1)>>,
               <<MI_arch, MI_ctx(4096)>>, <<MI_arch>>}

\* Lines of info.Parameters.
K_stop == <<"s", "t", "o", "p">>
ParamLines == {K_temperature \o <<" ", " ", "0", ".", "7">>,
               K_temperature \o <<" ", "0">>,
               K_temperature \o <<" ", "h", "o", "t">>,
               K_temperature,
               K_top_p \o <<" ", "0", ".", "9">>,
               K_top_p \o <<" ", "-", "1">>,
               K_stop \o <<" ", "x">>}

RECURSIVE JoinLines(_)
JoinLines(lines) ==
    IF lines = <<>> THEN EmptyStr
    ELSE IF Len(lines) = 1 THEN lines[1]
    ELSE lines[1] \o <<"\n">> \o JoinLines(Tail(lines))

ShowResponses ==
    {ShowError} \cup
    {[err |-> FALSE, ModelInfo |-> mi, Parameters |-> JoinLines(ls), Capabilities |-> caps] :
        mi \in ModelInfos, ls \in SeqsUpTo(ParamLines, MaxParamLines),
        caps \in SUBSET Capabilities}

\* Nothing of process() is running.
Parked ==
    /\ cfgBody = [kind |-> "empty", root |-> NoNode]
    /\ argClient = EmptyStr
    /\ optClientName = EmptyStr
    /\ optExclude = EmptyStr
    /\ optDefModel = EmptyStr
    /\ optOutFile = EmptyStr
    /\ inventory = <<>>
    /\ showTable = {}
    /\ rerun = FALSE
    /\ prevOutput = NoOutput
    /\ prevShowCalls = <<>>
    /\ pc = "idle"
    /\ Fresh

InitParams ==
    /\ Parked
    /\ call \in {[model |-> m, resp |-> r] : m \in {N_a, N_ab}, r \in ShowResponses}
    /\ ret = Idle

\* The not-found branch of the loop that adds the new models, for one model.
BuildNewModel ==
    /\ ret = Idle
    /\ call # Idle
    /\ LET p == getModelParameters(call.resp)
       IN ret' = [params |-> p, node |-> NewModelNode(call.model, p)]
    /\ UNCHANGED <<cfgBody, argClient, optClientName, optExclude, optDefModel, optOutFile,
                   inventory, showTable, pc, err, rerun, cfgDocNode, cfgDefModelClient,
                   cfgDefModelName, cfgDefModelNode, cfgClients, cfgOllamaClient,
                   cfgOllamaModels, ollamaModels, listCalls, showCalls, output,
                   prevOutput, prevShowCalls, call>>

NextParams == BuildNewModel

SpecParams == InitParams /\ [][NextParams]_vars

(* ------------------- vocabulary of the properties ---------------------- *)
\* The value paired with the first key of a mapping equal to key, keys being the
\* children at the odd positions; found when that value has the wanted kind.
Child(node, key, kind) ==
    LET keys == {i \in 1..Len(node.Content) :
                    /\ i % 2 = 1
                    /\ i + 1 <= Len(node.Content)
                    /\ node.Content[i].Kind = ScalarKind
                    /\ node.Content[i].Value = key}
        first == CHOOSE i \in keys : \A j \in keys : i <= j
    IN IF keys # {} /\ node.Content[first + 1].Kind = kind
       THEN [found |-> TRUE, node |-> node.Content[first + 1]]
       ELSE [found |-> FALSE, node |-> KindNode(kind)]

HasName(e) == Child(e, K_name, ScalarKind).found
NameOf(e) == Child(e, K_name, ScalarKind).node.Value

Range(seq) == {seq[i] : i \in 1..Len(seq)}

\* The document read by this run and the document it wrote.
DocIn == cfgBody.root
DocOut == Unmarshal(output.text)

\* The clients of a document; none when the key is absent or no sequence.
ClientsOf(doc) == Child(doc, K_clients, SequenceKind).node.Content

\* The models section of the target client in a document.
TargetModels(doc) == Child(ClientsOf(doc)[cfgOllamaClient], K_models, SequenceKind)

Done == pc = "done"

\* The models the target client had on input and has in the written output.
ExistingModels == TargetModels(DocIn).node.Content
OutputModels == TargetModels(DocOut).node.Content

\* The sequence the reconciler works on, in the document or not.
WorkingModels == ModelsContent(cfgDocNode, cfgClients, cfgOllamaClient, cfgOllamaModels)

(* ------------------------------ properties ----------------------------- *)
\* C1 (pruning): when a run has written its output, an entry of the target
\* client's models on input is in the output models iff it has a name scalar
\* and that name is in the inventory list left by the exclusion filter.
C1_Pruning ==
    Done =>
        \A k \in 1..Len(ExistingModels) :
            (ExistingModels[k] \in Range(OutputModels))
                <=> (/\ HasName(ExistingModels[k])
                     /\ NameOf(ExistingModels[k]) \in Range(ollamaModels))

\* A run that kept one named entry and dropped another.
C1_Witness ==
    /\ Done
    /\ \E k, d \in 1..Len(ExistingModels) :
          /\ ExistingModels[k] \in Range(OutputModels)
          /\ HasName(ExistingModels[d])
          /\ ExistingModels[d] \notin Range(OutputModels)

\* C2 (addition): when the target client has a models sequence, every name of
\* the filtered inventory list that no existing entry carries is the name of an
\* entry of the output models that was not among the existing entries.
C2_Addition ==
    (Done /\ TargetModels(DocIn).found) =>
        \A n \in Range(ollamaModels) :
            (\A e \in Range(ExistingModels) : ~(HasName(e) /\ NameOf(e) = n))
                => \E o \in Range(OutputModels) :
                       /\ HasName(o) /\ NameOf(o) = n
                       /\ o \notin Range(ExistingModels)

\* A run that added a model next to an entry it kept.
C2_Witness ==
    /\ Done
    /\ TargetModels(DocIn).found
    /\ \E n \in Range(ollamaModels), e \in Range(ExistingModels) :
          /\ \A x \in Range(ExistingModels) : ~(HasName(x) /\ NameOf(x) = n)
          /\ \E o \in Range(OutputModels) : HasName(o) /\ NameOf(o) = n
          /\ e \in Range(OutputModels)

\* C3 (absent models section): when the target client has no models sequence,
\* the entries added for the names of the filtered inventory list are under
\* that client in the written output.
C3_AbsentModelsSerialized ==
    (Done /\ ~TargetModels(DocIn).found) =>
        /\ ollamaModels # <<>> => TargetModels(DocOut).found
        /\ \A n \in Range(ollamaModels) :
              \E o \in Range(OutputModels) : HasName(o) /\ NameOf(o) = n

\* The keys of a mapping and the scalar values paired with them.
HasKey(e, key) == \E i \in 1..Len(e.Content) : i % 2 = 1 /\ e.Content[i].Value = key
ValueAt(e, key) == Child(e, key, ScalarKind).node.Value
ValuesOf(e) == {e.Content[i].Value : i \in {j \in 1..Len(e.Content) : j % 2 = 0}}

\* C4 (meaningful fields only): the node built for a new model has
\* max_input_tokens, temperature, top_p iff the value obtained for it is > 0,
\* supports_vision, supports_function_calling, supports_reasoning (true) and
\* type (embedding) iff the capability is listed, and no value of it is negative.
C4_MeaningfulFields ==
    ret # Idle =>
        LET p == ret.params
            e == ret.node
        IN /\ HasKey(e, K_max_input_tokens) <=> p.maxCtxLen > 0
           /\ HasKey(e, K_temperature) <=> p.temperature > 0
           /\ HasKey(e, K_top_p) <=> p.topP > 0
           /\ HasKey(e, K_supports_vision) <=> CapabilityVision \in p.capabilities
           /\ HasKey(e, K_supports_function_calling) <=> CapabilityTools \in p.capabilities
           /\ HasKey(e, K_supports_reasoning) <=> CapabilityThinking \in p.capabilities
           /\ HasKey(e, K_type) <=> CapabilityEmbedding \in p.capabilities
           /\ \A k \in {K_supports_vision, K_supports_function_calling, K_supports_reasoning} :
                  HasKey(e, k) => ValueAt(e, k) = K_true
           /\ HasKey(e, K_type) => ValueAt(e, K_type) = K_embedding
           /\ \A v \in ValuesOf(e) : v = EmptyStr \/ Head(v) # "-"
           /\ NameOf(e) = call.model

\* A node with a context length and a capability, built while the temperature
\* and top_p are unknown.
C4_Witness ==
    /\ ret # Idle
    /\ ret.params.maxCtxLen > 0
    /\ ret.params.temperature = Unknown.temperature
    /\ ret.params.topP = Unknown.topP
    /\ CapabilityTools \in ret.params.capabilities
    /\ HasKey(ret.node, K_max_input_tokens)
    /\ ~HasKey(ret.node, K_temperature)

\* C5 (ordering): the models of the target client in the written output are in
\* ascending byte-wise order of their names.
C5_Sorted ==
    Done =>
        \A j \in 1..(Len(OutputModels) - 1) :
            ~StrLess(NameOf(OutputModels[j + 1]), NameOf(OutputModels[j]))

\* A run whose kept entries were out of order on input.
C5_Witness ==
    /\ Done
    /\ Len(OutputModels) >= 2
    /\ \E i, j \in 1..Len(ExistingModels) :
          /\ i < j
          /\ StrLess(NameOf(ExistingModels[j]), NameOf(ExistingModels[i]))
          /\ ExistingModels[i] \in Range(OutputModels)
          /\ ExistingModels[j] \in Range(OutputModels)

\* C6 (idempotence): the run on the output of the previous run, with the same
\* command line and inventory, writes the same document and calls Show for no
\* model.
C6_Idempotent ==
    (Done /\ rerun) =>
        /\ output.text = prevOutput.text
        /\ showCalls = <<>>

\* C7 (exclusion filter): no model of the target client in the written output
\* has a name containing an item of the exclusion list, the items being the
\* pieces of -e between its commas.
C7_Excluded ==
    (Done /\ optExclude # EmptyStr) =>
        \A o \in Range(OutputModels), x \in Range(Split(optExclude, ",")) :
            ~Contains(NameOf(o), x)

\* A run with an exclusion item found both in a configured model and in a
\* model of the inventory, and with a model left in the output.
C7_Witness ==
    /\ Done
    /\ optExclude # EmptyStr
    /\ OutputModels # <<>>
    /\ \E x \in Range(Split(optExclude, ",")) :
          /\ \E e \in Range(ExistingModels) : HasName(e) /\ Contains(NameOf(e), x)
          /\ \E n \in Range(inventory) : Contains(n, x)

\* C8 (default target client): when -n is not given, the client the scan looks
\* for is "ollama".
C8_DefaultOllama ==
    (argClient = EmptyStr /\ pc \notin {"idle", "read", "locate"}) => optClientName = K_ollama

\* No client of the document read has a name scalar equal to target.
NoClientNamed(doc, target) ==
    \A c \in Range(ClientsOf(doc)) :
        ~(Child(c, K_name, ScalarKind).found /\ Child(c, K_name, ScalarKind).node.Value = target)

\* C9 (client not found): once the clients were scanned, if no client of the
\* document has a name scalar equal to the target, the run has ended with the
\* client-not-found error, without listing models or writing output.
C9_ClientNotFound ==
    (pc \notin {"idle", "read", "locate"} /\ cfgBody.kind = "doc"
        /\ NoClientNamed(DocIn, optClientName)) =>
        /\ pc = "failed"
        /\ err = "client not found"
        /\ listCalls = 0
        /\ ~output.written

\* The error raised for a document whose clients key is absent or no sequence.
C9_Witness ==
    /\ pc = "failed"
    /\ err = "client not found"
    /\ ~Child(DocIn, K_clients, SequenceKind).found
    /\ optClientName = K_ollama

\* The models of this run for which Show failed, and those it answered.
ShowFailed == {n \in Range(showCalls) : ShowResponse(showTable, n).err}
ShowAnswered == Range(showCalls) \ ShowFailed

\* C10 (recoverable enrichment failure): after Show failed for a new model, the
\* sequence holds an entry with only that model's name, the other new models
\* have their entries, the error is not returned, and a finished run has
\* written its output.
C10_ShowFailureRecovered ==
    ShowFailed # {} =>
        /\ \A n \in ShowFailed :
              MappingNode(<<ScalarNode(K_name), ScalarNode(n)>>) \in Range(WorkingModels)
        /\ \A n \in ShowAnswered :
              \E o \in Range(WorkingModels) : HasName(o) /\ NameOf(o) = n
        /\ pc = "failed" => err = "write"
        /\ Done => output.written

\* A finished run in which Show failed for one new model and answered for another.
C10_Witness ==
    /\ Done
    /\ output.written
    /\ ShowFailed # {}
    /\ ShowAnswered # {}
    /\ TargetModels(DocIn).found
    /\ \A n \in ShowFailed :
          MappingNode(<<ScalarNode(K_name), ScalarNode(n)>>) \in Range(OutputModels)

\* The errors process() returns before it has anything to write.
Fatal ==
    /\ pc = "failed"
    /\ err \in {"read", "unmarshal", "empty config file", "client not found", "list"}

\* C11 (no partial output): a run that ended with a read, parse, empty-document,
\* client-not-found or list error has written nothing, and whatever was written
\* was written by a run that parsed the document, located the client, listed
\* the models once and went through reconciliation to its end.
C11_NoPartialOutput ==
    /\ Fatal => output = NoOutput
    /\ output.written =>
          /\ pc = "done"
          /\ cfgDocNode # NoNode
          /\ cfgOllamaClient # 0
          /\ listCalls = 1

\* A run with an output file named that ended when the list call failed.
C11_Witness ==
    /\ Fatal
    /\ err = "list"
    /\ optOutFile # EmptyStr
    /\ cfgOllamaClient # 0
    /\ ~output.written

\* The position of the first key of a mapping equal to key, 0 when there is none.
KeyAt(node, key) ==
    LET keys == {i \in 1..Len(node.Content) :
                    /\ i % 2 = 1
                    /\ i + 1 <= Len(node.Content)
                    /\ node.Content[i].Kind = ScalarKind
                    /\ node.Content[i].Value = key}
    IN IF keys = {} THEN 0 ELSE CHOOSE i \in keys : \A j \in keys : i <= j

\* A document without the entries of the models sequence of its client c and
\* without the text of its top-level model scalar.
Masked(doc, c) ==
    LET ci == KeyAt(doc, K_clients)
        hasClient == /\ Child(doc, K_clients, SequenceKind).found
                     /\ c \in 1..Len(ClientsOf(doc))
        mi == IF hasClient THEN KeyAt(ClientsOf(doc)[c], K_models) ELSE 0
        hasModels == hasClient /\ Child(ClientsOf(doc)[c], K_models, SequenceKind).found
        d1 == IF hasModels
              THEN [doc EXCEPT !.Content[ci + 1].Content[c].Content[mi + 1].Content = <<>>]
              ELSE doc
        di == KeyAt(d1, K_model)
    IN IF Child(d1, K_model, ScalarKind).found
       THEN [d1 EXCEPT !.Content[di + 1].Value = EmptyStr]
       ELSE d1

\* C12 (frame): apart from the entries of the target client's models sequence
\* and the text of the top-level model scalar, the written document is the
\* document read, node for node and in the same positions; an output entry
\* carrying the name of an existing entry is that entry, with its fields, values
\* and comment; without -m the model scalar keeps its text.
C12_Frame ==
    Done =>
        /\ Masked(DocOut, cfgOllamaClient) = Masked(DocIn, cfgOllamaClient)
        /\ \A o \in Range(OutputModels) :
              (\E e \in Range(ExistingModels) :
                   HasName(e) /\ HasName(o) /\ NameOf(e) = NameOf(o))
                  => o \in Range(ExistingModels)
        /\ optDefModel = EmptyStr => ValueAt(DocOut, K_model) = ValueAt(DocIn, K_model)

\* A run that dropped an entry, kept a commented entry with a hand-set field,
\* added a model and rewrote the model scalar.
C12_Witness ==
    /\ Done
    /\ E_a \in Range(ExistingModels)
    /\ E_a \in Range(OutputModels)
    /\ E_ab \in Range(ExistingModels)
    /\ E_ab \notin Range(OutputModels)
    /\ Len(OutputModels) = 2
    /\ ValueAt(DocOut, K_model) # ValueAt(DocIn, K_model)

\* A model scalar of the form clientName:modelName.
WellFormedModel(v) ==
    \E p \in 2..(Len(v) - 1) : v[p] = ":" /\ \A q \in 1..(p - 1) : v[q] # ":"

\* The positions, in the sequence the reconciler ends with, of the entries
\* whose name contains the override.
Matching ==
    {k \in 1..Len(WorkingModels) :
        HasName(WorkingModels[k]) /\ Contains(NameOf(WorkingModels[k]), optDefModel)}

FirstMatching == CHOOSE k \in Matching : \A j \in Matching : k <= j

\* C13 (default-model fixup): for a document whose model scalar has the form
\* clientName:modelName, a finished run with -m given and a name of the final
\* sequence containing it has written targetClient:N as the model scalar, N the
\* first such name of the sorted sequence; with no such name, or without -m,
\* the model scalar is written as it was read.
C13_DefaultModelFixup ==
    (/\ Done
     /\ Child(DocIn, K_model, ScalarKind).found
     /\ WellFormedModel(ValueAt(DocIn, K_model))) =>
        IF optDefModel # EmptyStr /\ Matching # {}
        THEN ValueAt(DocOut, K_model)
                 = optClientName \o <<":">> \o NameOf(WorkingModels[FirstMatching])
        ELSE ValueAt(DocOut, K_model) = ValueAt(DocIn, K_model)

\* A run in which two names of the final sequence contain the override and
\* the model scalar named another client.
C13_Witness ==
    /\ Done
    /\ optDefModel # EmptyStr
    /\ Cardinality(Matching) >= 2
    /\ ValueAt(DocIn, K_model) = D_openai_gpt
    /\ ValueAt(DocOut, K_model) = K_ollama \o <<":">> \o N_ab

(* --------- getNodeValue, setNodeValue and the client scan on their own -- *)
\* setNodeValue of the first variant: the first child that is a scalar equal to
\* key and has a child after it decides where value goes; else a pair is appended.
setNodeValue(node, key, value) ==
    LET hits == {i \in 1..Len(node.Content) :
                    /\ node.Content[i].Kind = ScalarKind
                    /\ node.Content[i].Value = key
                    /\ i + 1 <= Len(node.Content)}
    IN IF hits = {}
       THEN [node EXCEPT !.Content = @ \o <<ScalarNode(key), value>>]
       ELSE [node EXCEPT !.Content[(CHOOSE h \in hits : \A g \in hits : h <= g) + 1] = value]

\* Children of the mappings handed to getNodeValue and setNodeValue.
ChildPool == {ScalarNode(K_name), ScalarNode(K_host), ScalarNode(K_ollama), SequenceNode(<<>>)}
KeyPool == {K_name, K_host}
NewValue == SequenceNode(<<MappingNode(<<ScalarNode(K_name), ScalarNode(N_a)>>)>>)

\* Client mappings handed to the scan, each of them a list of key/value pairs.
C_ollama == MappingNode(<<ScalarNode(K_name), ScalarNode(K_ollama)>>)
C_openai == MappingNode(<<ScalarNode(K_type), ScalarNode(K_openai),
                          ScalarNode(K_name), ScalarNode(K_openai)>>)
C_typeName == MappingNode(<<ScalarNode(K_type), ScalarNode(K_name)>>)
C_nameValue == MappingNode(<<ScalarNode(K_type), ScalarNode(K_name),
                             ScalarNode(K_ollama), ScalarNode(K_host)>>)
ClientPool == {C_ollama, C_openai, C_typeName, C_nameValue, AnonClient}

GetCalls ==
    {[fn |-> "getNodeValue", node |-> MappingNode(c), key |-> k, valueKind |-> vk] :
        c \in SeqsUpTo(ChildPool, MaxChildren), k \in KeyPool,
        vk \in {ScalarKind, SequenceKind}}
SetCalls ==
    {[fn |-> "setNodeValue", node |-> MappingNode(c), key |-> k, value |-> NewValue] :
        c \in SeqsUpTo(ChildPool, MaxChildren), k \in KeyPool}
ScanCalls ==
    {[fn |-> "scan", clients |-> cs, target |-> t] :
        cs \in SeqsUpTo(ClientPool, MaxClients), t \in {K_ollama, K_openai}}

InitNodes ==
    /\ Parked
    /\ call \in GetCalls \cup SetCalls \cup ScanCalls
    /\ ret = Idle

Returns(r) ==
    /\ ret = Idle
    /\ ret' = r
    /\ UNCHANGED <<cfgBody, argClient, optClientName, optExclude, optDefModel, optOutFile,
                   inventory, showTable, pc, err, rerun, cfgDocNode, cfgDefModelClient,
                   cfgDefModelName, cfgDefModelNode, cfgClients, cfgOllamaClient,
                   cfgOllamaModels, ollamaModels, listCalls, showCalls, output,
                   prevOutput, prevShowCalls, call>>

GetNodeValueCall ==
    /\ call.fn = "getNodeValue"
    /\ Returns(getNodeValue(call.node, call.key, call.valueKind))

SetNodeValueCall ==
    /\ call.fn = "setNodeValue"
    /\ Returns([node |-> setNodeValue(call.node, call.key, call.value)])

\* The loops over the clients and their children; an index past the end of a
\* client's children stops them with a panic.
ScanClientsCall ==
    /\ call.fn = "scan"
    /\ LET hits == ScanMatches(call.clients, call.target)
       IN Returns(IF ScanPanics(call.clients)
                  THEN [panic |-> TRUE, cfgOllamaClient |-> 0]
                  ELSE [panic |-> FALSE,
                        cfgOllamaClient |-> IF hits = {} THEN 0 ELSE LastOf(hits)])

NextNodes ==
    \/ GetNodeValueCall
    \/ SetNodeValueCall
    \/ ScanClientsCall

SpecNodes == InitNodes /\ [][NextNodes]_vars

\* c is the value of a key/value pair of the mapping whose key is a scalar
\* equal to key and whose value has the kind asked for.
PairValue(node, key, kind, c) ==
    \E i \in 1..Len(node.Content) :
        /\ i % 2 = 1
        /\ i + 1 <= Len(node.Content)
        /\ node.Content[i].Kind = ScalarKind
        /\ node.Content[i].Value = key
        /\ node.Content[i + 1].Kind = kind
        /\ node.Content[i + 1] = c

\* C14 (getNodeValue): the call reports found exactly when the mapping has a
\* key/value pair with that key and a value of the kind asked for, and the
\* child it returns is the value of such a pair; a scalar equal to the key in a
\* value position, and a key without a value, count for nothing.
C14_GetChild ==
    (ret # Idle /\ call.fn = "getNodeValue") =>
        /\ ret.ok <=> \E c \in Range(call.node.Content) :
                          PairValue(call.node, call.key, call.valueKind, c)
        /\ ret.ok => PairValue(call.node, call.key, call.valueKind, ret.node)

\* C15 (setNodeValue): on a mapping that has the key, the result is the
\* mapping with the value paired with that key replaced and every other child
\* as it was; on a mapping without the key, the result is the mapping with
\* the key and the value appended.
C15_SetChild ==
    (ret # Idle /\ call.fn = "setNodeValue") =>
        LET k == KeyAt(call.node, call.key)
        IN IF k # 0
           THEN ret.node.Content = [call.node.Content EXCEPT ![k + 1] = call.value]
           ELSE ret.node.Content = call.node.Content \o <<ScalarNode(call.key), call.value>>

\* How often x occurs in a sequence.
Count(seq, x) == Cardinality({i \in 1..Len(seq) : seq[i] = x})

\* An entry the target client had on input carries the name n.
Configured(n) == \E e \in Range(ExistingModels) : HasName(e) /\ NameOf(e) = n

\* C16 (inventory call pattern): a finished run has made one list call and one
\* Show call for each name of the filtered inventory list that no existing
\* entry carries, and none for any other name, however often a name is
\* listed; Show calls are made only after the list call, and the output is
\* written only at the end of the run, after them.
C16_CallPattern ==
    /\ Done =>
          /\ listCalls = 1
          /\ \A n \in Range(inventory) \cup Range(showCalls) :
                Count(showCalls, n)
                    = IF n \in Range(ollamaModels) /\ ~Configured(n) THEN 1 ELSE 0
    /\ showCalls # <<>> => listCalls = 1 /\ pc \notin {"read", "locate", "list"}
    /\ output.written => Done

\* A finished run whose inventory listed a new model twice, next to a
\* configured entry that was dropped.
C16_Witness ==
    /\ Done
    /\ Len(inventory) = 2
    /\ inventory[1] = inventory[2]
    /\ showCalls = <<inventory[1]>>
    /\ ExistingModels # <<>>

\* The clients whose models section differs between the document read and
\* the document written.
Changed ==
    {i \in 1..Len(ClientsOf(DocIn)) :
        Child(ClientsOf(DocOut)[i], K_models, SequenceKind)
            # Child(ClientsOf(DocIn)[i], K_models, SequenceKind)}

\* The clients of the document read that carry the target name.
Carrying == {i \in 1..Len(ClientsOf(DocIn)) :
                /\ HasName(ClientsOf(DocIn)[i])
                /\ NameOf(ClientsOf(DocIn)[i]) = optClientName}

\* C17 (single reconciliation target): a finished run has written as many
\* clients as it read, the models of at most one of them differ from those
\* read, and that one is the client selected; every other client, carrying
\* the target name or not, is written as it was read.
C17_SingleTarget ==
    Done =>
        /\ Len(ClientsOf(DocOut)) = Len(ClientsOf(DocIn))
        /\ Cardinality(Changed) <= 1
        /\ Changed \subseteq {cfgOllamaClient}
        /\ \A i \in 1..Len(ClientsOf(DocIn)) :
              i # cfgOllamaClient => ClientsOf(DocOut)[i] = ClientsOf(DocIn)[i]

\* A finished run on a document with two clients of the target name, each with
\* a models sequence the inventory would change, that changed one of them.
C17_Witness ==
    /\ Done
    /\ Cardinality(Carrying) = 2
    /\ \A i \in Carrying :
          /\ Child(ClientsOf(DocIn)[i], K_models, SequenceKind).found
          /\ \E n \in Range(ollamaModels) :
                \A e \in Range(Child(ClientsOf(DocIn)[i], K_models, SequenceKind).node.Content) :
                    NameOf(e) # n
    /\ Changed = {cfgOllamaClient}

\* The run has gone through the default-model section, one way or another.
PastFixup ==
    \/ pc \in {"output", "done"}
    \/ pc = "failed" /\ err = "write"
    \/ pc = "panic" /\ err = "nil pointer dereference"

\* C18 (fixup is crash-free): a run with -n and -m given, in which a name of
\* the final sequence contains the override, gets through the default-model
\* section without a panic, whatever the model scalar of the document, and a
\* finished run has written its output.
C18_FixupCrashFree ==
    (/\ argClient # EmptyStr
     /\ optDefModel # EmptyStr
     /\ PastFixup
     /\ Matching # {}) =>
        /\ pc # "panic"
        /\ Done => output.written

\* C19 (client scan stays in bounds): on clients that are lists of key/value
\* pairs the scan ends without indexing past the end of a client's children,
\* and a client it selects has a name key whose value is the target.
C19_ScanInBounds ==
    (ret # Idle /\ call.fn = "scan") =>
        /\ ~ret.panic
        /\ ret.cfgOllamaClient # 0 =>
              /\ HasName(call.clients[ret.cfgOllamaClient])
              /\ NameOf(call.clients[ret.cfgOllamaClient]) = call.target

\* C20 (exclusion items are trimmed): no model of the target client in the
\* written output has a name containing an item of the exclusion list with the
\* white space around the item removed.
C20_ExcludeTrimmed ==
    (Done /\ optExclude # EmptyStr) =>
        \A o \in Range(OutputModels), x \in Range(Split(optExclude, ",")) :
            TrimSpace(x) # EmptyStr => ~Contains(NameOf(o), TrimSpace(x))

\* The items of -e that are not empty, and the names containing one of them.
NonEmptyItems == {x \in Range(Split(optExclude, ",")) : x # EmptyStr}
Matched(n) == \E x \in NonEmptyItems : Contains(n, x)

\* C21 (exclusion removes only matching models): once the inventory is
\* filtered, every listed name missing from the filtered list contains a
\* non-empty item of the exclusion list, and a finished run has kept every
\* existing entry whose name is listed and contains no non-empty item.
C21_OnlyMatchingExcluded ==
    /\ (pc \in {"reconcile", "default", "output", "done"} /\ optExclude # EmptyStr) =>
          \A n \in Range(inventory) : n \notin Range(ollamaModels) => Matched(n)
    /\ (Done /\ optExclude # EmptyStr) =>
          \A e \in Range(ExistingModels) :
              (HasName(e) /\ NameOf(e) \in Range(inventory) /\ ~Matched(NameOf(e)))
                  => e \in Range(OutputModels)

====
